---- MODULE Spec2Model ----
(***************************************************************************)
(* Model of the mouse-clicker control core: ClickerManager (start, stop,   *)
(* toggle, update_settings), the click loop thread it spawns, and the      *)
(* HotkeyManager it owns.  Control-thread methods are one action each; the *)
(* loop thread is modelled at the granularity of its atomic operations.    *)
(***************************************************************************)
EXTENDS Integers, Sequences, FiniteSets, TLC

(* ---------- bounds of the model ---------- *)
\* number of calls the control thread makes in one behaviour
MaxCalls == 4
\* the actuator is not invoked any more once the counter has this value
MaxClicks == 3
\* hotkey events the channel holds at most
MaxEvents == 2
\* the clock stops here, in microseconds
MaxNow == 1200000
\* number of calls into the core the window makes in one behaviour
MaxFrameCalls == 3

(* ---------- Option<T> ---------- *)
None == {}
Some(x) == {x}

(* ---------- config/settings.rs ---------- *)
MaxIntervalMs == 60000
MaxClickCount == 1000000

AppSettings(i, b, c, h) ==
    [interval_ms |-> i, mouse_button |-> b, click_count |-> c, hotkey |-> h]

DefaultSettings == AppSettings(1000, "Left", None, "F2")

\* a validate whose upper limits are exclusive
validate_exclusive_limits(s) ==
    IF s.interval_ms = 0 THEN FALSE
    ELSE IF s.interval_ms >= MaxIntervalMs THEN FALSE
    ELSE IF \E count \in s.click_count : count = 0 THEN FALSE
    ELSE IF \E count \in s.click_count : count >= MaxClickCount THEN FALSE
    ELSE TRUE

\* AppSettings::validate: TRUE stands for Ok(()), FALSE for Err(..)
validate(s) ==
    IF s.interval_ms = 0 THEN FALSE
    ELSE IF s.interval_ms > MaxIntervalMs THEN FALSE
    ELSE IF \E count \in s.click_count : count = 0 THEN FALSE
    ELSE IF \E count \in s.click_count : count > MaxClickCount THEN FALSE
    ELSE TRUE

\* the configurations the control thread passes to update_settings
Configs ==
    { DefaultSettings,
      AppSettings(10, "Right", Some(2), "F1"),
      AppSettings(0, "Left", None, "F2") }

VARIABLES
    settings,        \* ClickerManager.settings
    current_hotkey,  \* HotkeyManager.current_hotkey : Option<HotKey>
    registered,      \* hotkeys the GlobalHotKeyManager holds registered
    is_running,      \* the AtomicBool behind ClickerManager.is_running
    click_count,     \* the AtomicU32 behind ClickerManager.click_count
    start_time,      \* ClickerManager.start_time : Option<Instant>
    threads,         \* the loop threads spawned so far, in spawn order
    last,            \* the last control-thread call and what it returned
    interrupted,     \* a loop thread cleared is_running since the last call
    successes,       \* successful actuator actions since the last reset
    peak_regs,       \* most registrations ever held at once
    stopped_upto,    \* threads 1..stopped_upto were spawned before a stop()
    ncalls,          \* calls the control thread has made
    events,          \* GlobalHotKeyEvent::receiver(): the events not yet polled
    now,             \* the clock Instant::now() reads in the UI, microseconds
    last_hotkey_time, \* UiState.last_hotkey_time : Option<Instant>
    polled,          \* what the last check_hotkey() returned
    v_in,            \* the AppSettings validate() is applied to
    v_out,           \* the Result of that validate(), "none" before the call
    current_status,  \* MainWindow.current_status
    ui_settings,     \* MainWindow.settings
    frame_pc,        \* where MainWindow::update stands in the frame
    store            \* SettingsManager.settings

uiVars == << events, now, last_hotkey_time, polled >>
pureVars == << v_in, v_out >>
frameVars == << current_status, ui_settings, frame_pc >>
auxVars == << uiVars, pureVars, frameVars, store >>

vars == << settings, current_hotkey, registered, is_running, click_count,
           start_time, threads, last, interrupted, successes, peak_regs,
           stopped_upto, ncalls, auxVars >>

hotkeyVars == << current_hotkey, registered, peak_regs >>
sessionVars == << is_running, click_count, start_time, threads, successes,
                  stopped_upto >>

\* identity of the Arc allocations made by ClickerManager::new; start()
\* clones these handles, it allocates nothing
SelfCells == 0

Exited == [pc |-> "exited"]

Live(t) == threads[t].pc # "exited"

Threads == 1..Len(threads)

\* Instant::now() in a control-thread call: the calls happen one after the
\* other, so the number of the call stands for its instant
InstantNow == ncalls + 1

\* ClickerManager::new(AppSettings::default()) has returned Ok
CoreInit ==
    /\ settings = DefaultSettings
    /\ current_hotkey = Some("F2")
    /\ registered = {"F2"}
    /\ is_running = FALSE
    /\ click_count = 0
    /\ start_time = None
    /\ threads = << >>
    /\ last = [op |-> "new", ok |-> TRUE, was_running |-> FALSE,
               again |-> FALSE]
    /\ interrupted = FALSE
    /\ successes = 0
    /\ peak_regs = 1
    /\ stopped_upto = 0
    /\ ncalls = 0

\* MainWindow::new: no hotkey seen yet; the channel is empty
UiInit ==
    /\ events = << >>
    /\ now = 0
    /\ last_hotkey_time = None
    /\ polled = FALSE

\* ClickerStatus::default()
DefaultStatus ==
    [state |-> "Stopped", click_count |-> 0, target_count |-> None,
     runtime_seconds |-> 0]

\* MainWindow::new and SettingsManager::default: the first frame has not begun
FrameInit ==
    /\ current_status = DefaultStatus
    /\ ui_settings = DefaultSettings
    /\ frame_pc = "status"
    /\ store = DefaultSettings

Init ==
    /\ CoreInit
    /\ UiInit
    /\ FrameInit
    /\ v_in = DefaultSettings
    /\ v_out = "none"

\* a control-thread call returns: ok is its Result, was_running the state a
\* toggle() found (FALSE for the other calls), again tells that the call
\* before was the same method and no loop thread cleared is_running since
Returned(op, ok) ==
    /\ ncalls < MaxCalls
    /\ ncalls' = ncalls + 1
    /\ last' = [op |-> op, ok |-> ok,
                was_running |-> (op = "toggle" /\ is_running),
                again |-> (last.op = op /\ ~interrupted)]
    /\ interrupted' = FALSE

(* ---------- core/hotkey.rs ---------- *)

\* GlobalHotKeyManager::unregister / register on the set of held hotkeys
Unregister(regs, hotkey) == regs \ hotkey
Register(regs, key) == regs \cup {key}

\* register fails when the system refuses the key (register_ok = FALSE) or
\* when this manager already holds it
RegisterOk(regs, key, register_ok) == register_ok /\ key \notin regs

\* HotkeyManager::set_hotkey returns Ok
SetHotkeyOk(key, register_ok) ==
    RegisterOk(Unregister(registered, current_hotkey), key, register_ok)

Max(a, b) == IF a >= b THEN a ELSE b

\* a set_hotkey that registers the new key before it releases the old one
set_hotkey_register_first(key, register_ok) ==
    IF RegisterOk(registered, key, register_ok)
    THEN /\ registered' = Unregister(Register(registered, key), current_hotkey)
         /\ current_hotkey' = Some(key)
         /\ peak_regs' = Max(peak_regs, Cardinality(Register(registered, key)))
    ELSE /\ registered' = Unregister(registered, current_hotkey)
         /\ current_hotkey' = current_hotkey
         /\ peak_regs' = Max(peak_regs, Cardinality(registered))

\* HotkeyManager::set_hotkey
set_hotkey(key, register_ok) ==
    LET released == Unregister(registered, current_hotkey) IN
    IF RegisterOk(released, key, register_ok)
    THEN /\ registered' = Register(released, key)
         /\ current_hotkey' = Some(key)
         /\ peak_regs' = Max(peak_regs,
                             Max(Cardinality(released),
                                 Cardinality(Register(released, key))))
    ELSE /\ registered' = released
         /\ current_hotkey' = current_hotkey
         /\ peak_regs' = Max(peak_regs, Cardinality(released))

(* ---------- core/clicker.rs: control-thread methods ---------- *)

\* the closure handed to thread::spawn with what it captures
Closure ==
    [pc |-> "new", cells |-> SelfCells,
     interval |-> settings.interval_ms,
     target_count |-> settings.click_count,
     mouse_button |-> settings.mouse_button]

\* ClickerManager::start, lines 77-146
StartSession ==
    /\ is_running' = TRUE
    /\ click_count' = 0
    /\ start_time' = Some(InstantNow)
    /\ threads' = Append(threads, Closure)
    /\ successes' = 0
    /\ UNCHANGED stopped_upto

\* a start() without the early return of lines 73-75
StartBody_no_guard == StartSession

\* ClickerManager::start
StartBody ==
    IF is_running
    THEN UNCHANGED sessionVars
    ELSE StartSession

start ==
    /\ StartBody
    /\ Returned("start", TRUE)
    /\ UNCHANGED << settings, hotkeyVars, auxVars >>

\* a stop() that forgets the start timestamp
StopBody_keeps_start_time ==
    /\ is_running' = FALSE
    /\ stopped_upto' = Len(threads)
    /\ UNCHANGED << start_time, click_count, threads, successes >>

\* ClickerManager::stop
StopBody ==
    /\ is_running' = FALSE
    /\ start_time' = None
    /\ stopped_upto' = Len(threads)
    /\ UNCHANGED << click_count, threads, successes >>

stop ==
    /\ StopBody
    /\ Returned("stop", TRUE)
    /\ UNCHANGED << settings, hotkeyVars, auxVars >>

\* a toggle() that starts whatever the state is
ToggleBody_always_start == StartBody

\* ClickerManager::toggle
ToggleBody ==
    IF is_running THEN StopBody ELSE StartBody

toggle ==
    /\ ToggleBody
    /\ Returned("toggle", TRUE)
    /\ UNCHANGED << settings, hotkeyVars, auxVars >>

\* the snapshot of a running loop rewritten from a configuration
Reconfigured(th, cfg) ==
    IF th.pc = "exited" THEN th
    ELSE [th EXCEPT !.interval = cfg.interval_ms,
                    !.target_count = cfg.click_count,
                    !.mouse_button = cfg.mouse_button]

\* an update_settings that also reconfigures the loops that are running
update_settings_live(new_settings, register_ok) ==
    /\ IF settings.hotkey # new_settings.hotkey
       THEN /\ set_hotkey(new_settings.hotkey, register_ok)
            /\ IF SetHotkeyOk(new_settings.hotkey, register_ok)
               THEN settings' = new_settings
                    /\ Returned("update_settings", TRUE)
               ELSE settings' = settings
                    /\ Returned("update_settings", FALSE)
       ELSE /\ settings' = new_settings
            /\ Returned("update_settings", TRUE)
            /\ UNCHANGED hotkeyVars
    /\ threads' = [t \in Threads |-> Reconfigured(threads[t], settings')]
    /\ UNCHANGED << is_running, click_count, start_time, successes,
                    stopped_upto, auxVars >>

\* ClickerManager::update_settings; set_hotkey is HotkeyManager::set_hotkey
\* and register_ok the outcome of GlobalHotKeyManager::register
update_settings(new_settings, register_ok) ==
    IF settings.hotkey # new_settings.hotkey
    THEN /\ set_hotkey(new_settings.hotkey, register_ok)
         /\ IF SetHotkeyOk(new_settings.hotkey, register_ok)
            THEN settings' = new_settings /\ Returned("update_settings", TRUE)
            ELSE settings' = settings /\ Returned("update_settings", FALSE)
         /\ UNCHANGED << sessionVars, auxVars >>
    ELSE /\ settings' = new_settings
         /\ Returned("update_settings", TRUE)
         /\ UNCHANGED << hotkeyVars, sessionVars, auxVars >>

\* the same method called from a frame of the window, which goes on
UpdateSettingsBody(new_settings, register_ok) ==
    IF settings.hotkey # new_settings.hotkey
    THEN /\ set_hotkey(new_settings.hotkey, register_ok)
         /\ IF SetHotkeyOk(new_settings.hotkey, register_ok)
            THEN settings' = new_settings /\ Returned("update_settings", TRUE)
            ELSE settings' = settings /\ Returned("update_settings", FALSE)
    ELSE /\ settings' = new_settings
         /\ Returned("update_settings", TRUE)
         /\ UNCHANGED hotkeyVars

UpdateSettings == \E s \in Configs, ok \in BOOLEAN : update_settings(s, ok)

(* ---------- core/clicker.rs: the loop thread ---------- *)

Goto(t, pc) == threads' = [threads EXCEPT ![t].pc = pc]
Exit(t) == threads' = [threads EXCEPT ![t] = Exited]

ctlVars == << settings, hotkeyVars, last, stopped_upto, ncalls, auxVars >>

\* MouseController::new() at the head of the closure
LoopNew(t, outcomes) ==
    /\ threads[t].pc = "new"
    /\ \E ok \in outcomes : IF ok THEN Goto(t, "sleep0") ELSE Exit(t)
    /\ UNCHANGED << ctlVars, is_running, click_count, start_time, successes,
                    interrupted >>

\* the wait before the first click
LoopFirstSleep(t) ==
    /\ threads[t].pc = "sleep0"
    /\ Goto(t, "while")
    /\ UNCHANGED << ctlVars, is_running, click_count, start_time, successes,
                    interrupted >>

\* while is_running.load(Relaxed)
LoopWhile(t) ==
    /\ threads[t].pc = "while"
    /\ IF is_running THEN Goto(t, "load") ELSE Exit(t)
    /\ UNCHANGED << ctlVars, is_running, click_count, start_time, successes,
                    interrupted >>

\* the target test with > in place of >=
TargetReached_off_by_one(current_count, target_count) ==
    \E target \in target_count : current_count > target

\* if let Some(target) = target_count { if current_count >= target
TargetReached(current_count, target_count) ==
    \E target \in target_count : current_count >= target

\* current_count = click_count.load(Relaxed) and the comparison with target
LoopLoad(t) ==
    /\ threads[t].pc = "load"
    /\ IF TargetReached(click_count, threads[t].target_count)
       THEN Goto(t, "store_false")
       ELSE Goto(t, "click")
    /\ UNCHANGED << ctlVars, is_running, click_count, start_time, successes,
                    interrupted >>

\* is_running.store(false); break   (target reached, or fatal click error)
LoopStoreFalse(t) ==
    /\ threads[t].pc = "store_false"
    /\ is_running' = FALSE
    /\ interrupted' = TRUE
    /\ Exit(t)
    /\ UNCHANGED << ctlVars, click_count, start_time, successes >>

\* e.contains("权限") || e.contains("permission") || e.contains("accessibility")
IsPermissionError(e) == e = "ErrPermission"

ClickResults == {"Ok", "ErrPermission", "ErrOther"}

\* a match that treats every click error as a permission problem
AfterClick_never_fatal(res) ==
    IF res = "Ok" THEN "add" ELSE "sleep"

\* a match that stops the loop on every click error
AfterClick_always_fatal(res) ==
    IF res = "Ok" THEN "add" ELSE "store_false"

\* match mouse.click(mouse_button); a failed click that keeps the loop going
\* falls through to the sleep at the end of the iteration
AfterClick(res) ==
    IF res = "Ok" THEN "add"
    ELSE IF IsPermissionError(res) THEN "sleep"
    ELSE "store_false"

LoopClick(t, results) ==
    /\ threads[t].pc = "click"
    /\ click_count < MaxClicks
    /\ \E res \in results :
         /\ Goto(t, AfterClick(res))
         /\ successes' = IF res = "Ok" THEN successes + 1 ELSE successes
    /\ UNCHANGED << ctlVars, is_running, click_count, start_time, interrupted >>

\* click_count.fetch_add(1, Relaxed); the u32 wrap-around lies far beyond
\* MaxClicks
LoopAdd(t) ==
    /\ threads[t].pc = "add"
    /\ click_count' = click_count + 1
    /\ Goto(t, "sleep")
    /\ UNCHANGED << ctlVars, is_running, start_time, successes, interrupted >>

\* thread::sleep(interval) at the end of an iteration
LoopSleep(t) ==
    /\ threads[t].pc = "sleep"
    /\ Goto(t, "while")
    /\ UNCHANGED << ctlVars, is_running, click_count, start_time, successes,
                    interrupted >>

Loop(t, news, results) ==
    \/ LoopNew(t, news)
    \/ LoopFirstSleep(t)
    \/ LoopWhile(t)
    \/ LoopLoad(t)
    \/ LoopStoreFalse(t)
    \/ LoopClick(t, results)
    \/ LoopAdd(t)
    \/ LoopSleep(t)

\* the steps of the spawned threads; MouseController::new and click may fail
Construct == \E t \in Threads : LoopNew(t, BOOLEAN)
FirstSleep == \E t \in Threads : LoopFirstSleep(t)
CheckRunning == \E t \in Threads : LoopWhile(t)
CheckTarget == \E t \in Threads : LoopLoad(t)
StoreFalse == \E t \in Threads : LoopStoreFalse(t)
Click == \E t \in Threads : LoopClick(t, ClickResults)
FetchAdd == \E t \in Threads : LoopAdd(t)
Sleep == \E t \in Threads : LoopSleep(t)

Next ==
    \/ start
    \/ stop
    \/ toggle
    \/ UpdateSettings
    \/ Construct
    \/ FirstSleep
    \/ CheckRunning
    \/ CheckTarget
    \/ StoreFalse
    \/ Click
    \/ FetchAdd
    \/ Sleep

Spec == Init /\ [][Next]_vars

(* ---------- a session that nobody stops, with an actuator that works ---------- *)

\* the loop threads when MouseController::new and click always return Ok
ConstructOk == \E t \in Threads : LoopNew(t, {TRUE})
ClickOk == \E t \in Threads : LoopClick(t, {"Ok"})

NextNoStop ==
    \/ start
    \/ UpdateSettings
    \/ ConstructOk
    \/ FirstSleep
    \/ CheckRunning
    \/ CheckTarget
    \/ StoreFalse
    \/ ClickOk
    \/ FetchAdd
    \/ Sleep

\* the scheduler lets every spawned thread run: a sleep ends, a runnable
\* thread gets the processor
SpecNoStop ==
    /\ Init
    /\ [][NextNoStop]_vars
    /\ \A t \in 1..MaxCalls : WF_vars(t \in Threads /\ Loop(t, {TRUE}, {"Ok"}))

(* ---------- ui/main_window.rs: the hotkey poll of a frame ---------- *)

DebounceMs == 500
MicrosPerMilli == 1000

\* Duration::as_millis on a duration held in microseconds
as_millis(d) == d \div MicrosPerMilli

\* a check_hotkey_pressed that does not look at the state of the event
check_hotkey_pressed_any_state(evs) ==
    IF evs # << >>
    THEN [pressed |-> TRUE, rest |-> Tail(evs)]
    ELSE [pressed |-> FALSE, rest |-> evs]

\* HotkeyManager::check_hotkey_pressed (ClickerManager::check_hotkey hands it
\* on): what try_recv leaves in the channel and the value returned
check_hotkey_pressed(evs) ==
    IF evs # << >>
    THEN [pressed |-> Head(evs) = "Pressed", rest |-> Tail(evs)]
    ELSE [pressed |-> FALSE, rest |-> evs]

\* should_trigger of MainWindow::check_hotkey
should_trigger(last_time, instant) ==
    IF last_time = None THEN TRUE
    ELSE \A t \in last_time : as_millis(instant - t) > DebounceMs

\* MainWindow::check_hotkey
CheckHotkeyBody ==
    LET r == check_hotkey_pressed(events) IN
    /\ events' = r.rest
    /\ polled' = r.pressed
    /\ IF r.pressed /\ should_trigger(last_hotkey_time, now)
       THEN /\ last_hotkey_time' = Some(now)
            /\ ToggleBody
            /\ Returned("toggle", TRUE)
       ELSE UNCHANGED << last_hotkey_time, sessionVars, last, interrupted,
                         ncalls >>
    /\ UNCHANGED << now, settings, hotkeyVars, pureVars, store >>

check_hotkey ==
    /\ CheckHotkeyBody
    /\ UNCHANGED frameVars

\* the system delivers an event of the registered hotkey into the channel
HotKeyStates == {"Pressed", "Released"}

HotkeyEvent ==
    /\ registered # {}
    /\ Len(events) < MaxEvents
    /\ \E st \in HotKeyStates : events' = Append(events, st)
    /\ UNCHANGED << settings, hotkeyVars, sessionVars, last, interrupted,
                    ncalls, now, last_hotkey_time, polled, pureVars,
                    frameVars, store >>

\* time passes between two frames, in microseconds
TickSteps == {100000, 500000, 500500}

Tick ==
    /\ \E d \in TickSteps : now + d <= MaxNow /\ now' = now + d
    /\ UNCHANGED << settings, hotkeyVars, sessionVars, last, interrupted,
                    ncalls, events, last_hotkey_time, polled, pureVars,
                    frameVars, store >>

NextUi ==
    \/ HotkeyEvent
    \/ Tick
    \/ check_hotkey

SpecUi == Init /\ [][NextUi]_vars

(* ---------- ui/main_window.rs: the frames of MainWindow::update ---------- *)

\* start.elapsed(): the instants of the control thread are its call numbers
Elapsed(since) == InstantNow - since

\* a get_status that takes the state from the start timestamp
get_status_by_start_time ==
    [state |-> IF start_time # None THEN "Running" ELSE "Stopped",
     click_count |-> click_count,
     target_count |-> settings.click_count,
     runtime_seconds |-> IF start_time = None THEN 0
                         ELSE Elapsed(CHOOSE since \in start_time : TRUE)]

\* ClickerManager::get_status
get_status ==
    [state |-> IF is_running THEN "Running" ELSE "Stopped",
     click_count |-> click_count,
     target_count |-> settings.click_count,
     runtime_seconds |-> IF start_time = None THEN 0
                         ELSE Elapsed(CHOOSE since \in start_time : TRUE)]

\* MainWindow::update_clicker_status, the first step of a frame
update_clicker_status ==
    /\ frame_pc = "status"
    /\ current_status' = get_status
    /\ frame_pc' = "hotkey"
    /\ UNCHANGED << settings, hotkeyVars, sessionVars, last, interrupted,
                    ncalls, uiVars, pureVars, ui_settings, store >>

\* self.check_hotkey() of the frame
FrameCheckHotkey ==
    /\ frame_pc = "hotkey"
    /\ CheckHotkeyBody
    /\ frame_pc' = "settings"
    /\ ncalls' <= MaxFrameCalls
    /\ UNCHANGED << current_status, ui_settings >>

\* what the user can enter into the widgets of the settings group
UiIntervals == {0, 10}
UiButtons == {"Left", "Right"}
UiHotkeys == {"F1", "F2"}
UiCounts == {0, 2}
CheckboxCount == 100

\* the settings after one widget of the group reported changed() and its
\* value passed the test of the widget
UiEdits(cfg) ==
    { [cfg EXCEPT !.interval_ms = interval] :
        interval \in {i \in UiIntervals : i > 0 /\ i <= MaxIntervalMs} }
    \cup { [cfg EXCEPT !.mouse_button = button] :
             button \in UiButtons \ {cfg.mouse_button} }
    \cup { [cfg EXCEPT !.hotkey = key] : key \in UiHotkeys \ {cfg.hotkey} }
    \cup { [cfg EXCEPT !.click_count =
                IF cfg.click_count = None THEN Some(CheckboxCount) ELSE None] }
    \cup { [cfg EXCEPT !.click_count = Some(count)] :
             count \in {c \in UiCounts : cfg.click_count # None /\ c > 0
                                           /\ c <= MaxClickCount} }

\* MainWindow::draw_settings_section with update_clicker_settings: the
\* widgets answer only when the status of this frame is Stopped
draw_settings_section ==
    /\ frame_pc = "settings"
    /\ frame_pc' = "control"
    /\ \/ /\ current_status.state = "Stopped"
          /\ \E cfg \in UiEdits(ui_settings), register_ok \in BOOLEAN :
                /\ ui_settings' = cfg
                /\ UpdateSettingsBody(cfg, register_ok)
       \/ UNCHANGED << ui_settings, settings, hotkeyVars, last, interrupted,
                       ncalls >>
    /\ ncalls' <= MaxFrameCalls
    /\ UNCHANGED << sessionVars, uiVars, pureVars, current_status, store >>

\* MainWindow::draw_control_section with toggle_clicking: the button shown
\* follows the status of this frame, either button calls toggle()
draw_control_section ==
    /\ frame_pc = "control"
    /\ frame_pc' = "status"
    /\ \/ ToggleBody /\ Returned("toggle", TRUE)
       \/ UNCHANGED << sessionVars, last, interrupted, ncalls >>
    /\ ncalls' <= MaxFrameCalls
    /\ UNCHANGED << settings, hotkeyVars, uiVars, pureVars, current_status,
                    ui_settings, store >>

\* between two polls at most one event of the hotkey arrives; the channel is
\* read nowhere else, so the event is put in right before the poll
FrameHotkeyEvent ==
    /\ frame_pc = "hotkey"
    /\ events = << >>
    /\ HotkeyEvent

NextFrame ==
    \/ update_clicker_status
    \/ FrameCheckHotkey
    \/ draw_settings_section
    \/ draw_control_section
    \/ FrameHotkeyEvent
    \/ Construct
    \/ FirstSleep
    \/ CheckRunning
    \/ CheckTarget
    \/ StoreFalse
    \/ Click
    \/ FetchAdd
    \/ Sleep

SpecFrame == Init /\ [][NextFrame]_vars

(* ---------- validate() applied to one configuration ---------- *)

ValidateInputs ==
    { AppSettings(i, b, c, "F2") :
        i \in {0, 1, 1000, 60000, 60001, 70000},
        b \in {"Left", "ScrollDown"},
        c \in {None, Some(0), Some(1), Some(100), Some(1000000),
               Some(1000001)} }

InitValidate ==
    /\ CoreInit
    /\ UiInit
    /\ FrameInit
    /\ v_in \in ValidateInputs
    /\ v_out = "none"

Validate ==
    /\ v_out = "none"
    /\ v_out' = IF validate(v_in) THEN "Ok" ELSE "Err"
    /\ UNCHANGED << settings, hotkeyVars, sessionVars, last, interrupted,
                    ncalls, uiVars, v_in, frameVars, store >>

NextValidate == Validate

SpecValidate == InitValidate /\ [][NextValidate]_vars

(* ---------- config/settings.rs: SettingsManager ---------- *)

\* a SettingsManager::update that stores whatever it is given
update_unchecked(new_settings) ==
    /\ store' = new_settings
    /\ v_out' = "Ok"

\* SettingsManager::update: settings.validate()? ; self.settings = settings
update(new_settings) ==
    IF validate(new_settings)
    THEN /\ store' = new_settings
         /\ v_out' = "Ok"
    ELSE /\ store' = store
         /\ v_out' = "Err"

\* a caller hands a configuration to SettingsManager::update
Update ==
    /\ \E s \in ValidateInputs : v_in' = s /\ update(s)
    /\ UNCHANGED << settings, hotkeyVars, sessionVars, last, interrupted,
                    ncalls, uiVars, frameVars >>

NextManager == Update

SpecManager == Init /\ [][NextManager]_vars

(* ---------- the claims ---------- *)

\* the loop thread of the session that is current
Current == Len(threads)
Stale(t) == t \in Threads /\ t < Current /\ Live(t)

\* a step in which loop thread t loads or stores one of the shared cells
Access(t) == LoopWhile(t) \/ LoopLoad(t) \/ LoopStoreFalse(t) \/ LoopAdd(t)

\* C1: a loop thread of an earlier session never reads or writes the run flag
\* or the counter of the current session: whenever it accesses its cells, they
\* are not the cells the manager uses for the current session.
C1_StaleLoopNeverTouchesNewSession ==
    [][\A t \in 1..MaxCalls :
          (Stale(t) /\ Access(t)) => threads[t].cells # SelfCells]_vars

\* C2: a loop thread that was running when stop() returned leaves the loop at
\* its next check of the run flag, whatever the control thread called since.
C2_StoppedLoopExitsAtNextCheck ==
    [][\A t \in 1..MaxCalls :
          (t \in Threads /\ t <= stopped_upto /\ LoopWhile(t))
              => threads'[t] = Exited]_vars

\* C3: with a target T, an actuator that always succeeds and no stop(), a
\* started session eventually is Stopped with the counter at exactly T.
C3_TargetEventuallyReached ==
    \A T \in 1..MaxClicks :
        (is_running /\ Current > 0 /\ Live(Current)
            /\ threads[Current].target_count = Some(T))
        ~> (~is_running /\ click_count = T)

C3_Witness ==
    /\ Current > 0
    /\ ~Live(Current)
    /\ settings.click_count = Some(2)
    /\ ~is_running
    /\ click_count = 2
    /\ start_time # None

\* C4: whenever no increment is pending, the counter equals the number of
\* successful actuator actions of the session.
C4_CountEqualsSuccesses ==
    (\A t \in Threads : threads[t].pc # "add") => click_count = successes

\* C5: start() on a Running session changes neither the counter nor the start
\* timestamp and spawns no thread.
C5_StartWhileRunningIsNoOp ==
    [][(start /\ is_running)
          => UNCHANGED << is_running, click_count, start_time, threads >>]_vars

C5_Witness ==
    /\ last.op = "start"
    /\ last.again
    /\ is_running
    /\ start_time = Some(ncalls - 1)
    /\ Len(threads) = 1
    /\ click_count > 0

\* C6: a toggle() that directly follows a toggle(), with no loop thread having
\* cleared the run flag in between, restores the state the first one found.
C6_ToggleTwiceRestores ==
    [][(toggle /\ last.op = "toggle" /\ ~interrupted)
          => is_running' = last.was_running]_vars

C6_Witness ==
    /\ last.op = "toggle"
    /\ last.again
    /\ ~last.was_running
    /\ is_running
    /\ Len(threads) = 2

\* C7: stop() succeeds in every state, leaves the run flag false and the start
\* timestamp absent, touches nothing else and no thread, and a stop() after a
\* stop() changes nothing.
C7_StopClearsAndIsIdempotent ==
    [][stop =>
          /\ last'.ok
          /\ ~is_running'
          /\ start_time' = None
          /\ UNCHANGED << click_count, threads, settings, hotkeyVars >>
          /\ (last.op = "stop" => UNCHANGED << is_running, start_time >>)]_vars

C7_Witness ==
    /\ last.op = "stop"
    /\ last.again
    /\ ~is_running
    /\ start_time = None
    /\ \E t \in Threads : Live(t)

\* C8: update_settings with a configuration that validate rejects returns an
\* error and leaves the active configuration as it was.
C8_InvalidUpdateRejected ==
    [][\A s \in Configs : \A ok \in BOOLEAN :
          (update_settings(s, ok) /\ ~validate(s))
              => (settings' = settings /\ ~last'.ok)]_vars

\* C9: when update_settings changes the hotkey and the registration fails, the
\* configuration stays and the old hotkey is still registered.
C9_FailedRegistrationKeepsOldBinding ==
    [][\A s \in Configs : \A ok \in BOOLEAN :
          (/\ update_settings(s, ok)
           /\ settings.hotkey # s.hotkey
           /\ ~SetHotkeyOk(s.hotkey, ok))
              => (/\ settings' = settings
                  /\ ~last'.ok
                  /\ settings'.hotkey \in registered')]_vars

\* C10: never more than one hotkey registration is held, not even inside
\* set_hotkey while the binding is replaced.
C10_AtMostOneRegistration ==
    peak_regs <= 1 /\ Cardinality(registered) <= 1

C10_Witness ==
    /\ last.op = "update_settings"
    /\ last.ok
    /\ settings.hotkey = "F1"
    /\ current_hotkey = Some("F1")
    /\ registered = {"F1"}

\* C11: a Pressed event that check_hotkey polls is forwarded to toggle() iff
\* no event was accepted before or it comes strictly more than 500 ms after
\* the last accepted one; a rejected event changes neither the session nor
\* the timestamp of the last accepted event.
DebounceWindowMicros == 500000

C11_ForwardedIffOutsideWindow ==
    [][(check_hotkey /\ events # << >> /\ Head(events) = "Pressed")
          => /\ (ncalls' = ncalls + 1)
                   <=> (\/ last_hotkey_time = None
                        \/ \E t \in last_hotkey_time :
                              now - t > DebounceWindowMicros)
             /\ (ncalls' = ncalls
                   => UNCHANGED << last_hotkey_time, sessionVars >>)]_vars

\* C12: validate returns Ok exactly for an interval in (0, 60000] ms with a
\* target that is absent or in [1, 1000000].
C12_ValidateAcceptsExactlyTheRange ==
    v_out # "none" =>
        (v_out = "Ok" <=>
            /\ v_in.interval_ms > 0
            /\ v_in.interval_ms <= 60000
            /\ \A c \in v_in.click_count : c >= 1 /\ c <= 1000000)

C12_Witness ==
    /\ v_out = "Ok"
    /\ v_in.interval_ms = 60000
    /\ v_in.click_count = Some(1000000)

\* C13: update_settings leaves every loop thread with the interval, button and
\* target it was spawned with; a thread that is spawned gets the configuration
\* that is active at that start().
C13_UpdateLeavesRunningLoopAlone ==
    [][/\ UpdateSettings => UNCHANGED threads
       /\ Len(threads') = Len(threads) + 1
            => /\ threads'[Len(threads')].interval = settings.interval_ms
               /\ threads'[Len(threads')].target_count = settings.click_count
               /\ threads'[Len(threads')].mouse_button = settings.mouse_button
               /\ \A t \in Threads : threads'[t] = threads[t]]_vars

C13_Witness ==
    /\ last.op = "update_settings"
    /\ last.ok
    /\ is_running
    /\ Current = 1
    /\ threads[1].pc = "click"
    /\ threads[1].target_count = None
    /\ threads[1].interval = 1000
    /\ settings.click_count = Some(2)
    /\ settings.interval_ms = 10

\* C14: when MouseController::new fails, the session is not Running.
C14_ConstructionFailureLeavesStopped ==
    [][\A t \in 1..MaxCalls :
          (t \in Threads /\ LoopNew(t, {FALSE})) => ~is_running']_vars

\* C15: a click that fails with an error other than a permission error does
\* not count, makes the loop store false into the run flag and leave; a thread
\* that has left does nothing more, and only start() or toggle() makes the
\* session Running again.
C15_FatalErrorEndsSession ==
    [][/\ \A t \in 1..MaxCalls : t \in Threads =>
             /\ LoopClick(t, {"ErrOther"})
                   => /\ click_count' = click_count
                      /\ threads'[t].pc = "store_false"
             /\ LoopStoreFalse(t)
                   => /\ ~is_running'
                      /\ click_count' = click_count
                      /\ threads'[t] = Exited
             /\ threads[t] = Exited => threads'[t] = Exited
       /\ (~is_running /\ is_running')
             => (ncalls' = ncalls + 1 /\ last'.op \in {"start", "toggle"})]_vars

C15_Witness ==
    /\ ncalls = 1
    /\ last.op = "start"
    /\ interrupted
    /\ ~is_running
    /\ threads = << Exited >>
    /\ click_count = 0

\* C16: whenever the session is Stopped, the start timestamp is absent.
C16_StoppedHasNoStartTime ==
    ~is_running => start_time = None

\* C17: the counter never exceeds the target the loop of the current session
\* was started with.
C17_CountNeverExceedsTarget ==
    (Current > 0 /\ Live(Current))
        => \A target \in threads[Current].target_count : click_count <= target

\* C18: a click that fails with a permission error leaves the run flag and the
\* counter as they are and takes the loop to the sleep that ends the
\* iteration, from where it checks the flag again.
C18_PermissionErrorKeepsRunning ==
    [][\A t \in 1..MaxCalls : t \in Threads =>
          /\ LoopClick(t, {"ErrPermission"})
                => /\ UNCHANGED << is_running, click_count >>
                   /\ threads'[t].pc = "sleep"
          /\ LoopSleep(t)
                => /\ UNCHANGED << is_running, click_count >>
                   /\ threads'[t].pc = "while"]_vars

C18_Witness ==
    /\ ncalls = 1
    /\ is_running
    /\ Len(threads) = 1
    /\ threads[1].pc = "sleep"
    /\ successes = 0
    /\ click_count = 0

\* C19: while the loop of the session that start() made Running has not
\* finished its first wait, no actuator action has succeeded and the counter
\* is 0.
C19_NoActionBeforeFirstWait ==
    (is_running /\ Current > 0 /\ Live(Current)
        /\ threads[Current].pc \in {"new", "sleep0"})
        => (successes = 0 /\ click_count = 0)

\* C20: a poll takes at most the first event out of the channel and returns
\* true exactly when there was one and it is Pressed; on an empty channel it
\* returns false at once.
C20_PollTakesOneEvent ==
    [][check_hotkey =>
          /\ polled' = (events # << >> /\ Head(events) = "Pressed")
          /\ events = << >> => events' = << >>
          /\ events # << >> => events' = Tail(events)]_vars

C20_Witness ==
    /\ polled
    /\ events = << "Released" >>
    /\ last.op = "toggle"

\* C21: get_status changes nothing of the core, and the status it returns has
\* state Running exactly when the run flag is true, the value of the counter
\* and the target of the active configuration.
C21_StatusIsPureRead ==
    [][update_clicker_status =>
          /\ UNCHANGED << is_running, click_count, start_time, settings,
                          threads, hotkeyVars >>
          /\ (current_status'.state = "Running") <=> is_running
          /\ current_status'.state \in {"Running", "Stopped"}
          /\ current_status'.click_count = click_count
          /\ current_status'.target_count = settings.click_count]_vars

C21_Witness ==
    /\ frame_pc = "hotkey"
    /\ current_status.state = "Stopped"
    /\ ~is_running
    /\ start_time # None
    /\ current_status.click_count = 2
    /\ current_status.target_count = Some(2)

\* C22: SettingsManager::update with a configuration that validate rejects
\* returns an error and leaves the stored settings as they were; with a valid
\* one it returns Ok and the stored settings are that configuration.
C22_UpdateStoresOnlyValid ==
    [][Update =>
          /\ ~validate(v_in') => (v_out' = "Err" /\ store' = store)
          /\ validate(v_in') => (v_out' = "Ok" /\ store' = v_in')]_vars

C22_Witness ==
    /\ v_out = "Err"
    /\ v_in.interval_ms = 60001
    /\ store = AppSettings(60000, "ScrollDown", Some(1000000), "F2")

\* C23: from the return of a stop() to the next start of a session the
\* counter does not change.
C23_CountFrozenAfterStop ==
    [][(/\ stopped_upto = Len(threads)
        /\ Len(threads) > 0
        /\ Len(threads') = Len(threads))
          => click_count' = click_count]_vars

\* C24: a toggle() from the button of a frame whose status is Running leaves
\* the session Stopped.
C24_StopButtonStops ==
    [][(/\ draw_control_section
        /\ ncalls' = ncalls + 1
        /\ current_status.state = "Running")
          => ~is_running']_vars

\* C25: whenever update_clicker_settings has called update_settings, the
\* settings of the window and the settings of the core are equal.
C25_UiAndCoreSettingsEqual ==
    [][(draw_settings_section /\ ncalls' = ncalls + 1)
          => ui_settings' = settings']_vars

\* C26: the window calls update_settings only while the run flag is false.
C26_UpdateOnlyWhileStopped ==
    [][(draw_settings_section /\ ncalls' = ncalls + 1) => ~is_running]_vars
====
